---------------------------- MODULE Spec2Model ----------------------------
(***************************************************************************)
(* Model of gerapy_auto_extractor/extractors/list.py: ListExtractor.       *)
(*                                                                         *)
(* Strings are sequences of one-character strings, so that startswith,     *)
(* concatenation, len and lexicographic order are computed and not         *)
(* assumed.  A Python dict is a sequence of [key, val] entries in          *)
(* insertion order.  Floats are fixed-point integers: similarities are in  *)
(* hundredths, log10 is scaled by 10^4, the Gaussian by 10^8.  Means are   *)
(* kept as (sum, count) and compared by cross-multiplication, so no        *)
(* division is rounded.                                                    *)
(***************************************************************************)
EXTENDS Integers, Sequences, FiniteSets, TLC

VARIABLES
    min_number,            \* self.min_number
    min_length,            \* self.min_length
    max_length,            \* self.max_length
    similarity_threshold,  \* self.similarity_threshold, in hundredths
    element,               \* descendants_of_body(element): the decorated nodes
    similar,               \* pairs of selectors the clustering collaborator merges
    pc,                    \* pc[i]: position of invocation i of process
    descendants_tree,      \* descendants_tree[i], local of _build_clusters
    clusters,              \* clusters[i], result of _build_clusters
    best_cluster,          \* best_cluster[i], result of _choose_best_cluster
    best_path,             \* best_path[i], local of _extract_from_cluster
    result                 \* result[i], result of _extract_from_cluster

self_vars == <<min_number, min_length, max_length, similarity_threshold>>
vars == <<min_number, min_length, max_length, similarity_threshold, element,
          similar, pc, descendants_tree, clusters, best_cluster, best_path,
          result>>

(***************************************************************************)
(* Program constants and model bounds.                                     *)
(***************************************************************************)
LIST_MIN_NUMBER == 5
LIST_MIN_LENGTH == 8
LIST_MAX_LENGTH == 35
SIMILARITY_THRESHOLD == 80

MaxNodes == 3
MaxFilterNodes == 2
MaxClusters == 2
MaxClusterSize == 2
MaxMembers == 2
MaxTreeNodes == 2

Invocations == {1, 2}

(***************************************************************************)
(* Strings.                                                                *)
(***************************************************************************)
Ord(c) ==
    CASE c = "/" -> 47
      [] c = ":" -> 58
      [] c = ">" -> 62
      [] c = "a" -> 97
      [] c = "b" -> 98
      [] c = "h" -> 104
      [] c = "p" -> 112
      [] c = "t" -> 116
      [] OTHER -> 120

\* str.startswith
StartsWith(s, prefix) ==
    /\ Len(prefix) <= Len(s)
    /\ SubSeq(s, 1, Len(prefix)) = prefix

\* str.__lt__: code-point lexicographic order, a proper prefix is smaller
StrLess(a, b) ==
    \E k \in 1..Len(b) :
        /\ k <= Len(a) + 1
        /\ SubSeq(a, 1, k - 1) = SubSeq(b, 1, k - 1)
        /\ \/ k = Len(a) + 1
           \/ k <= Len(a) /\ Ord(a[k]) < Ord(b[k])

RECURSIVE SortedSet(_)
\* sorted(list(keys)) of a set of distinct strings
SortedSet(S) ==
    IF S = {} THEN <<>>
    ELSE LET m == CHOOSE x \in S : \A y \in S \ {x} : StrLess(x, y)
         IN  <<m>> \o SortedSet(S \ {m})

\* truthiness of a str
Truthy(s) == s # <<>>

RECURSIVE Rep(_, _)
\* the string c * n
Rep(c, n) == IF n = 0 THEN <<>> ELSE <<c>> \o Rep(c, n - 1)

Range(s) == {s[k] : k \in 1..Len(s)}

RECURSIVE SeqsUpTo(_, _)
\* all sequences over S of length at most n
SeqsUpTo(S, n) ==
    IF n = 0 THEN {<<>>}
    ELSE LET shorter == SeqsUpTo(S, n - 1)
         IN  shorter \cup {Append(s, x) : s \in {t \in shorter : Len(t) = n - 1}, x \in S}

(***************************************************************************)
(* Dicts in insertion order.                                               *)
(***************************************************************************)
Keys(d) == {d[k].key : k \in 1..Len(d)}

KeySeq(d) == [k \in 1..Len(d) |-> d[k].key]

HasKey(d, key) == key \in Keys(d)

Lookup(d, key) == d[CHOOSE k \in 1..Len(d) : d[k].key = key].val

\* d[key].append(x) on a defaultdict(list)
DictAppend(d, key, x) ==
    IF HasKey(d, key)
    THEN [k \in 1..Len(d) |->
            IF d[k].key = key THEN [key |-> key, val |-> Append(d[k].val, x)]
            ELSE d[k]]
    ELSE Append(d, [key |-> key, val |-> <<x>>])

\* del d[key]
DictDel(d, key) == SelectSeq(d, LAMBDA e : e.key # key)

(***************************************************************************)
(* _build_clusters: the candidate filter.                                  *)
(***************************************************************************)
\* PassesFilter without the test of line 62
PassesFilter_NoMinLengthTest(descendant) ==
    /\ ~(descendant.number_of_siblings + 1 < min_number)
    /\ ~(descendant.a_descendants_group_text_max_length < min_length)
    /\ ~(descendant.similarity_with_siblings < similarity_threshold)

\* the four "continue" tests of the loop, negated
PassesFilter(descendant) ==
    /\ ~(descendant.number_of_siblings + 1 < min_number)
    /\ ~(descendant.a_descendants_group_text_min_length > max_length)
    /\ ~(descendant.a_descendants_group_text_max_length < min_length)
    /\ ~(descendant.similarity_with_siblings < similarity_threshold)

RECURSIVE FilterLoop(_, _, _)
\* the for loop over descendants, from index k on
FilterLoop(descendants, k, tree) ==
    IF k > Len(descendants) THEN tree
    ELSE FilterLoop(descendants, k + 1,
                    IF PassesFilter(descendants[k])
                    THEN DictAppend(tree, descendants[k].parent_selector, descendants[k])
                    ELSE tree)

(***************************************************************************)
(* _build_clusters: cut tree, remove parent block.                         *)
(***************************************************************************)
\* the test that deletes selector, last_selector being None on the first turn
ShouldDelete(has_last, last_selector, selector) ==
    /\ has_last
    /\ Truthy(last_selector)
    /\ Truthy(selector)
    /\ StartsWith(last_selector, selector)

RECURSIVE PruneLoop(_, _, _, _, _)
\* the for loop over selectors[::-1], from index k down
PruneLoop(selectors, k, has_last, last_selector, tree) ==
    IF k = 0 THEN tree
    ELSE PruneLoop(selectors, k - 1, TRUE, selectors[k],
                   IF ShouldDelete(has_last, last_selector, selectors[k])
                   THEN DictDel(tree, selectors[k])
                   ELSE tree)

RECURSIVE PruneLoop_Forward(_, _, _, _, _)
PruneLoop_Forward(selectors, k, has_last, last_selector, tree) ==
    IF k > Len(selectors) THEN tree
    ELSE PruneLoop_Forward(selectors, k + 1, TRUE, selectors[k],
                   IF has_last /\ Truthy(last_selector) /\ Truthy(selectors[k])
                      /\ StartsWith(selectors[k], last_selector)
                   THEN DictDel(tree, selectors[k])
                   ELSE tree)

\* CutTree walking the sorted selectors forwards, which drops the deeper selector
CutTree_Forward(tree) ==
    LET selectors == SortedSet(Keys(tree))
    IN  PruneLoop_Forward(selectors, 1, FALSE, <<>>, tree)

CutTree(tree) ==
    LET selectors == SortedSet(Keys(tree))
    IN  PruneLoop(selectors, Len(selectors), FALSE, <<>>, tree)

(***************************************************************************)
(* Actions of _build_clusters.                                             *)
(***************************************************************************)
\* lines 55-71
Filter(i) ==
    /\ pc[i] = "filter"
    /\ descendants_tree' = [descendants_tree EXCEPT ![i] = FilterLoop(element, 1, <<>>)]
    /\ pc' = [pc EXCEPT ![i] = "cut"]
    /\ UNCHANGED <<self_vars, element, similar, clusters, best_cluster, best_path, result>>

\* lines 73-80
Cut(i) ==
    /\ pc[i] = "cut"
    /\ descendants_tree' = [descendants_tree EXCEPT ![i] = CutTree(descendants_tree[i])]
    /\ pc' = [pc EXCEPT ![i] = "cluster"]
    /\ UNCHANGED <<self_vars, element, similar, clusters, best_cluster, best_path, result>>

(***************************************************************************)
(* cluster_dict of utils.cluster, the clustering collaborator: selectors   *)
(* judged similar are merged greedily, cluster ids count from 0 in the     *)
(* order the clusters are opened, and every node of the mapping goes to    *)
(* the cluster of its selector.                                            *)
(***************************************************************************)
Min(S) == CHOOSE x \in S : \A y \in S : x <= y

RECURSIVE ClusterLoop(_, _, _)
ClusterLoop(keys, k, groups) ==
    IF k > Len(keys) THEN groups
    ELSE LET fits == {g \in 1..Len(groups) :
                        \A w \in groups[g] : {keys[k], w} \in similar}
         IN  ClusterLoop(keys, k + 1,
                 IF fits = {} THEN Append(groups, {keys[k]})
                 ELSE [groups EXCEPT ![Min(fits)] = @ \cup {keys[k]}])

ClusterId(groups, key) == (CHOOSE g \in 1..Len(groups) : key \in groups[g]) - 1

\* d[key].extend(xs) on a defaultdict(list), xs not empty
DictExtend(d, key, xs) ==
    IF HasKey(d, key)
    THEN [k \in 1..Len(d) |->
            IF d[k].key = key THEN [key |-> key, val |-> d[k].val \o xs]
            ELSE d[k]]
    ELSE Append(d, [key |-> key, val |-> xs])

RECURSIVE ClusterDictLoop(_, _, _, _)
ClusterDictLoop(data, k, groups, res) ==
    IF k > Len(data) THEN res
    ELSE ClusterDictLoop(data, k + 1, groups,
             DictExtend(res, ClusterId(groups, data[k].key), data[k].val))

cluster_dict(data) ==
    ClusterDictLoop(data, 1, ClusterLoop(KeySeq(data), 1, <<>>), <<>>)

\* preprocess4list of utils.preprocess on a tree that is already normalised
\* and decorated: the normalisation is idempotent
preprocess4list(tree) == tree

(***************************************************************************)
(* _choose_best_cluster.                                                   *)
(***************************************************************************)
\* np.log10(m) * 10^4, m = 1..12
Log10x == <<0, 3010, 4771, 6021, 6990, 7782, 8451, 9031, 9542, 10000, 10414, 10792>>

RECURSIVE SumSimilarity(_)
SumSimilarity(cluster) ==
    IF cluster = <<>> THEN 0
    ELSE cluster[1].similarity_with_siblings + SumSimilarity(Tail(cluster))

\* clusters_score[cluster_id]['clusters_score'] as the fraction num / den:
\* np.mean of the similarities times np.log10(number_of_elements + 1)
ClusterScore(cluster) ==
    [num |-> SumSimilarity(cluster) * Log10x[Len(cluster) + 1], den |-> Len(cluster)]

\* ScoreGreater with >= for >: the last maximum wins
ScoreGreater_OrEqual(score, score_max) ==
    score.num * score_max.den >= score_max.num * score.den

\* line 111: clusters_score > clusters_score_max
ScoreGreater(score, score_max) ==
    score.num * score_max.den > score_max.num * score.den

RECURSIVE ChooseLoop(_, _, _, _)
\* the for loop over clusters.items(), from index k on
ChooseLoop(cs, k, arg_max, score_max) ==
    IF k > Len(cs) THEN arg_max
    ELSE IF ScoreGreater(ClusterScore(cs[k].val), score_max)
         THEN ChooseLoop(cs, k + 1, cs[k].key, ClusterScore(cs[k].val))
         ELSE ChooseLoop(cs, k + 1, arg_max, score_max)

\* clusters_score_arg_max = 0 and clusters_score_max = -1 before the loop
clusters_score_arg_max(cs) == ChooseLoop(cs, 1, 0, [num |-> -1, den |-> 1])

(***************************************************************************)
(* _probability_of_title_with_length and _extract_from_cluster.            *)
(***************************************************************************)
\* exp(-d^2 / 288) / (sqrt(2 pi) * 6) * 10^8 at index d + 1, where
\* d = 2 * |length - avg_length| and 288 = 4 * 2 * sigma^2 with sigma = 6
GaussTable ==
    <<6649038, 6625991, 6557329, 6444469, 6289720, 6096206, 5867755, 5608780,
      5324133, 5018957, 4698531, 4368123, 4032845, 3697536, 3366645, 3044151,
      2733501, 2437566, 2158627, 1898378, 1657952, 1437955, 1238519, 1059362,
      899849, 759066, 635877, 528994, 437031, 358557, 292138, 236376,
      189933, 151559, 120102, 94515, 73864, 57326, 44183, 33817,
      25705, 19403, 14545, 10827, 8005, 5877, 4285, 3102,
      2231, 1593, 1129, 795, 556, 386, 266, 182,
      124, 84, 56, 37, 25, 16, 11, 7,
      4, 3, 2, 1, 1>>

Abs(x) == IF x < 0 THEN -x ELSE x

\* self.avg_length * 2
avg_length_x2 == min_length + max_length

_probability_of_title_with_length(length) ==
    LET d == Abs(2 * length - avg_length_x2)
    IN  IF d + 1 <= Len(GaussTable) THEN GaussTable[d + 1] ELSE 0

RECURSIVE Flatten(_)
\* the anchors in the order of the two nested loops: members, then a_descendants
Flatten(cluster) ==
    IF cluster = <<>> THEN <<>>
    ELSE cluster[1].a_descendants \o Flatten(Tail(cluster))

RECURSIVE ProbabilitiesLoop(_, _, _)
\* probabilities_of_title[path].append(probability_of_title)
ProbabilitiesLoop(anchors, k, probabilities_of_title) ==
    IF k > Len(anchors) THEN probabilities_of_title
    ELSE ProbabilitiesLoop(anchors, k + 1,
             DictAppend(probabilities_of_title, anchors[k].path,
                        _probability_of_title_with_length(Len(anchors[k].text))))

RECURSIVE SumSeq(_)
SumSeq(s) == IF s = <<>> THEN 0 ELSE s[1] + SumSeq(Tail(s))

\* np.mean(v) as the fraction sum / count
Mean(v) == [sum |-> SumSeq(v), count |-> Len(v)]

\* MeanGreater with >= for >: the last maximum wins
MeanGreater_OrEqual(a, b) == a.sum * b.count >= b.sum * a.count

MeanGreater(a, b) == a.sum * b.count > b.sum * a.count

RECURSIVE MaxLoop(_, _, _)
\* max(items, key=itemgetter(1)): the first of the greatest items
MaxLoop(items, k, best) ==
    IF k > Len(items) THEN best
    ELSE MaxLoop(items, k + 1,
                 IF MeanGreater(Mean(items[k].val), Mean(items[best].val)) THEN k ELSE best)

probabilities_of_title(cluster) == ProbabilitiesLoop(Flatten(cluster), 1, <<>>)

BestPathOf(probabilities) == probabilities[MaxLoop(probabilities, 2, 1)].key

\* descendant.attrib.get('href') is None or ''
NoUrl(descendant) ==
    \/ "href" \notin DOMAIN descendant.attrib
    \/ ~Truthy(descendant.attrib["href"])

\* NormalizeUrl without lines 153-154
NormalizeUrl_Unchanged(url) == url

\* lines 153-154
NormalizeUrl(url) ==
    IF StartsWith(url, <<"/", "/">>) THEN <<"h", "t", "t", "p", ":">> \o url ELSE url

RECURSIVE ExtractLoop_StopAtMissing(_, _, _, _)
\* ExtractLoop with break for continue at line 152: a missing href ends the loop
ExtractLoop_StopAtMissing(anchors, k, path, res) ==
    IF k > Len(anchors) THEN res
    ELSE IF anchors[k].path # path
         THEN ExtractLoop_StopAtMissing(anchors, k + 1, path, res)
         ELSE IF NoUrl(anchors[k]) THEN res
         ELSE ExtractLoop_StopAtMissing(anchors, k + 1, path,
                  Append(res, [title |-> anchors[k].text,
                               url |-> NormalizeUrl(anchors[k].attrib["href"])]))

RECURSIVE ExtractLoop(_, _, _, _)
\* lines 143-158
ExtractLoop(anchors, k, path, res) ==
    IF k > Len(anchors) THEN res
    ELSE IF anchors[k].path # path \/ NoUrl(anchors[k])
         THEN ExtractLoop(anchors, k + 1, path, res)
         ELSE ExtractLoop(anchors, k + 1, path,
                  Append(res, [title |-> anchors[k].text,
                               url |-> NormalizeUrl(anchors[k].attrib["href"])]))

(***************************************************************************)
(* Actions of process.                                                     *)
(***************************************************************************)
\* line 168
Preprocess(i) ==
    /\ pc[i] = "preprocess"
    /\ element' = preprocess4list(element)
    /\ pc' = [pc EXCEPT ![i] = "filter"]
    /\ UNCHANGED <<self_vars, similar, descendants_tree, clusters, best_cluster,
                   best_path, result>>

\* lines 81-82
Cluster(i) ==
    /\ pc[i] = "cluster"
    /\ clusters' = [clusters EXCEPT ![i] = cluster_dict(descendants_tree[i])]
    /\ pc' = [pc EXCEPT ![i] = "choose"]
    /\ UNCHANGED <<self_vars, element, similar, descendants_tree, best_cluster,
                   best_path, result>>

\* lines 91-116; clusters[clusters_score_arg_max] raises KeyError
ChooseBestCluster(i) ==
    /\ pc[i] = "choose"
    /\ LET arg_max == clusters_score_arg_max(clusters[i])
       IN  IF HasKey(clusters[i], arg_max)
           THEN /\ best_cluster' = [best_cluster EXCEPT ![i] = Lookup(clusters[i], arg_max)]
                /\ pc' = [pc EXCEPT ![i] = "best_path"]
           ELSE /\ pc' = [pc EXCEPT ![i] = "KeyError"]
                /\ UNCHANGED best_cluster
    /\ UNCHANGED <<self_vars, element, similar, descendants_tree, clusters,
                   best_path, result>>

\* lines 125-138; max() of no items raises ValueError
BestPath(i) ==
    /\ pc[i] = "best_path"
    /\ LET probabilities == probabilities_of_title(best_cluster[i])
       IN  IF probabilities # <<>>
           THEN /\ best_path' = [best_path EXCEPT ![i] = BestPathOf(probabilities)]
                /\ pc' = [pc EXCEPT ![i] = "emit"]
           ELSE /\ pc' = [pc EXCEPT ![i] = "ValueError"]
                /\ UNCHANGED best_path
    /\ UNCHANGED <<self_vars, element, similar, descendants_tree, clusters,
                   best_cluster, result>>

\* Emit with the result list kept on the extractor and never reset
Emit_SharedResult(i) ==
    /\ pc[i] = "emit"
    /\ result' = [result EXCEPT ![i] =
                    ExtractLoop(Flatten(best_cluster[i]), 1, best_path[i],
                                result[CHOOSE j \in Invocations : j # i])]
    /\ pc' = [pc EXCEPT ![i] = "done"]
    /\ UNCHANGED <<self_vars, element, similar, descendants_tree, clusters,
                   best_cluster, best_path>>

\* lines 141-159
Emit(i) ==
    /\ pc[i] = "emit"
    /\ result' = [result EXCEPT ![i] =
                    ExtractLoop(Flatten(best_cluster[i]), 1, best_path[i], <<>>)]
    /\ pc' = [pc EXCEPT ![i] = "done"]
    /\ UNCHANGED <<self_vars, element, similar, descendants_tree, clusters,
                   best_cluster, best_path>>

(***************************************************************************)
(* Inputs of the build stage.                                              *)
(***************************************************************************)
DefaultThresholds ==
    [min_number |-> LIST_MIN_NUMBER, min_length |-> LIST_MIN_LENGTH,
     max_length |-> LIST_MAX_LENGTH, similarity_threshold |-> SIMILARITY_THRESHOLD]

\* ListExtractor(min_number=4, similarity_threshold=0.9)
CustomThresholds ==
    [min_number |-> 4, min_length |-> LIST_MIN_LENGTH,
     max_length |-> LIST_MAX_LENGTH, similarity_threshold |-> 90]

Node(sel, sib, lens, sim, anchors) ==
    [number_of_siblings |-> sib,
     parent_selector |-> sel,
     a_descendants_group_text_min_length |-> lens[1],
     a_descendants_group_text_max_length |-> lens[2],
     similarity_with_siblings |-> sim,
     a_descendants |-> anchors]

\* selectors of the pruning inputs: the empty one, a chain of three, siblings
Selectors ==
    {<<>>, <<"a">>, <<"a", "b">>, <<"a", "b", "a">>, <<"a", "b", "b">>,
     <<"b">>, <<"b", "a">>}

BuildNodes ==
    {Node(sel, sib, <<10, 20>>, 90, <<>>) : sel \in Selectors, sib \in {3, 4}}

FilterNodes ==
    {Node(sel, sib, lens, sim, <<>>) :
        sel \in {<<"a">>, <<"a", "b">>}, sib \in {3, 4},
        lens \in {<<3, 7>>, <<10, 20>>, <<36, 40>>}, sim \in {79, 80, 90}}

Idle == [i \in Invocations |-> "idle"]
NoDict == [i \in Invocations |-> <<>>]

InitLocals ==
    /\ descendants_tree = NoDict
    /\ clusters = NoDict
    /\ best_cluster = NoDict
    /\ best_path = NoDict
    /\ result = NoDict

InitSelf(t) ==
    /\ min_number = t.min_number
    /\ min_length = t.min_length
    /\ max_length = t.max_length
    /\ similarity_threshold = t.similarity_threshold

InitBuild ==
    /\ InitSelf(DefaultThresholds)
    /\ element \in SeqsUpTo(BuildNodes, MaxNodes)
    /\ similar = {}
    /\ pc = [Idle EXCEPT ![1] = "filter"]
    /\ InitLocals

InitFilter ==
    /\ \E t \in {DefaultThresholds, CustomThresholds} : InitSelf(t)
    /\ element \in SeqsUpTo(FilterNodes, MaxFilterNodes)
    /\ similar = {}
    /\ pc = [Idle EXCEPT ![1] = "filter"]
    /\ InitLocals

NextBuild == Filter(1) \/ Cut(1)

SpecBuild == InitBuild /\ [][NextBuild]_vars

SpecFilter == InitFilter /\ [][NextBuild]_vars

(***************************************************************************)
(* Inputs of the scoring stage: cluster ids 0, 1, .. in insertion order.   *)
(***************************************************************************)
NonEmptySeqsUpTo(S, n) == SeqsUpTo(S, n) \ {<<>>}

ChooseNodes ==
    {Node(<<"a">>, 4, <<10, 20>>, sim, <<>>) : sim \in {80, 90, 100}}

ClusterInputs ==
    {[k \in 1..Len(vals) |-> [key |-> k - 1, val |-> vals[k]]] :
        vals \in SeqsUpTo(NonEmptySeqsUpTo(ChooseNodes, MaxClusterSize), MaxClusters)}

InitChoose ==
    /\ InitSelf(DefaultThresholds)
    /\ element = <<>>
    /\ similar = {}
    /\ pc = [Idle EXCEPT ![1] = "choose"]
    /\ descendants_tree = NoDict
    /\ \E cs \in ClusterInputs : clusters = [NoDict EXCEPT ![1] = cs]
    /\ best_cluster = NoDict
    /\ best_path = NoDict
    /\ result = NoDict

NextChoose == ChooseBestCluster(1)

SpecChoose == InitChoose /\ [][NextChoose]_vars

(***************************************************************************)
(* Inputs of the extraction stage.                                         *)
(***************************************************************************)
Anchor(path, text, attrib) == [path |-> path, text |-> text, attrib |-> attrib]

NoAttrib == <<>>
Href(url) == [href |-> url]

\* len 21 and len 22 are equally likely titles, len 4 is an unlikely one
Title21 == Rep("t", 21)
Title22 == Rep("t", 22)
Title4 == Rep("t", 4)

\* on either path: a likely title with a relative href, an equally likely
\* title without a usable href (absent on one path, empty on the other), an
\* unlikely title with a protocol-relative href
Anchors ==
    {Anchor(<<"a">>, Title21, Href(<<"/", "a">>)),
     Anchor(<<"a">>, Title22, NoAttrib),
     Anchor(<<"a">>, Title4, Href(<<"/", "/", "a">>)),
     Anchor(<<"p", "a">>, Title21, Href(<<"/", "a">>)),
     Anchor(<<"p", "a">>, Title22, Href(<<>>)),
     Anchor(<<"p", "a">>, Title4, Href(<<"/", "/", "a">>))}

ExtractNodes ==
    {Node(<<"a">>, 4, <<4, 22>>, 90, anchors) : anchors \in SeqsUpTo(Anchors, 2)}

InitExtract ==
    /\ InitSelf(DefaultThresholds)
    /\ element = <<>>
    /\ similar = {}
    /\ pc = [Idle EXCEPT ![1] = "best_path"]
    /\ descendants_tree = NoDict
    /\ clusters = NoDict
    /\ \E c \in NonEmptySeqsUpTo(ExtractNodes, MaxMembers) :
            best_cluster = [NoDict EXCEPT ![1] = c]
    /\ best_path = NoDict
    /\ result = NoDict

NextExtract == BestPath(1) \/ Emit(1)

SpecExtract == InitExtract /\ [][NextExtract]_vars

(***************************************************************************)
(* process, twice on the shared list_extractor and the same tree.          *)
(***************************************************************************)
ProcessNodes ==
    {Node(sel, ss[1], <<10, 22>>, ss[2], anchors) :
        sel \in {<<"a">>, <<"a", "b">>, <<"b">>},
        ss \in {<<4, 90>>, <<3, 90>>},
        anchors \in {<<>>, <<Anchor(<<"a">>, Title21, Href(<<"/", "/", "a">>))>>}}

\* the collaborator merges nothing, or merges b with a and with ab
SimilarChoices == {{}, {{<<"a">>, <<"b">>}, {<<"a", "b">>, <<"b">>}}}

Init ==
    /\ InitSelf(DefaultThresholds)
    /\ element \in SeqsUpTo(ProcessNodes, MaxTreeNodes)
    /\ similar \in SimilarChoices
    /\ pc = [i \in Invocations |-> "preprocess"]
    /\ InitLocals

Next ==
    \E i \in Invocations :
        \/ Preprocess(i)
        \/ Filter(i)
        \/ Cut(i)
        \/ Cluster(i)
        \/ ChooseBestCluster(i)
        \/ BestPath(i)
        \/ Emit(i)

Spec == Init /\ [][Next]_vars

(***************************************************************************)
(* Claims about _build_clusters.                                           *)
(***************************************************************************)
StrictPrefix(p, s) == p # s /\ StartsWith(s, p)

PassingSelectors == {element[k].parent_selector : k \in {j \in 1..Len(element) : PassesFilter(element[j])}}

\* C1: after the pruning step no two selectors left in the mapping handed to
\* cluster_dict are such that one is a strict string prefix of the other.
C1_NoPrefixPairAfterCut ==
    pc[1] = "cluster" =>
        \A p, s \in Keys(descendants_tree[1]) : ~StrictPrefix(p, s)

\* C2: every node in the candidate mapping meets the four filter conditions
\* at once and is stored under the key equal to its own parent_selector.
C2_MappingHoldsOnlyQualifiedNodes ==
    \A k \in 1..Len(descendants_tree[1]) :
        \A n \in Range(descendants_tree[1][k].val) :
            /\ n.number_of_siblings + 1 >= min_number
            /\ n.a_descendants_group_text_min_length <= max_length
            /\ n.a_descendants_group_text_max_length >= min_length
            /\ n.similarity_with_siblings >= similarity_threshold
            /\ n.parent_selector = descendants_tree[1][k].key

\* a filtered mapping that holds one of two nodes, the other failing only
\* the minimum-length test
C2_Witness ==
    /\ pc[1] = "cut"
    /\ Len(element) = 2
    /\ Cardinality(Keys(descendants_tree[1])) = 1
    /\ \E k \in 1..Len(element) :
        /\ element[k].a_descendants_group_text_min_length > max_length
        /\ element[k].number_of_siblings + 1 >= min_number
        /\ element[k].similarity_with_siblings >= similarity_threshold

\* C9: the pruning step removes a selector only if it is a string prefix of
\* another selector of the mapping before pruning, and keeps every selector
\* that is a prefix of no other, with its node sequence unchanged.
C9_CutDropsOnlyAncestors ==
    [][pc[1] = "cut" /\ pc'[1] = "cluster" =>
        LET before == descendants_tree[1]
            after == descendants_tree'[1]
        IN  /\ Keys(after) \subseteq Keys(before)
            /\ \A sel \in Keys(before) \ Keys(after) :
                    \E other \in Keys(before) : StrictPrefix(sel, other)
            /\ \A sel \in Keys(before) :
                    (\A other \in Keys(before) : ~StrictPrefix(sel, other)) =>
                        /\ sel \in Keys(after)
                        /\ Lookup(after, sel) = Lookup(before, sel)
            /\ Cardinality(Keys(after)) = Len(after)]_vars

\* the chain a, ab, aba all passed the filter and only aba is left
C9_Witness ==
    /\ pc[1] = "cluster"
    /\ {<<"a">>, <<"a", "b">>, <<"a", "b", "a">>} = PassingSelectors
    /\ Keys(descendants_tree[1]) = {<<"a", "b", "a">>}
    /\ Len(Lookup(descendants_tree[1], <<"a", "b", "a">>)) = 1

(***************************************************************************)
(* Claims about _choose_best_cluster.                                      *)
(***************************************************************************)
\* score(a) <= score(b), score = mean similarity * log10(members + 1)
C3_ScoreLeq(a, b) ==
    SumSimilarity(a) * Log10x[Len(a) + 1] * Len(b)
        <= SumSimilarity(b) * Log10x[Len(b) + 1] * Len(a)

\* C3: for a non-empty cluster mapping _choose_best_cluster returns one of
\* the mapping's values, the first in iteration order of those whose score
\* is the greatest.
C3_ReturnsFirstGreatestScore ==
    clusters[1] # <<>> /\ pc[1] # "choose" =>
        /\ pc[1] = "best_path"
        /\ \E k \in 1..Len(clusters[1]) :
            /\ best_cluster[1] = clusters[1][k].val
            /\ \A j \in 1..Len(clusters[1]) :
                    C3_ScoreLeq(clusters[1][j].val, clusters[1][k].val)
            /\ \A j \in 1..(k - 1) :
                    ~C3_ScoreLeq(clusters[1][k].val, clusters[1][j].val)

\* two different clusters share the greatest score and the first is returned
C3_Witness ==
    /\ pc[1] = "best_path"
    /\ Len(clusters[1]) = 2
    /\ clusters[1][1].val # clusters[1][2].val
    /\ C3_ScoreLeq(clusters[1][1].val, clusters[1][2].val)
    /\ C3_ScoreLeq(clusters[1][2].val, clusters[1][1].val)
    /\ best_cluster[1] = clusters[1][1].val

Terminal == {"done", "KeyError", "ValueError"}

\* C4: when no node passes the filter, so that the cluster mapping is empty,
\* process ends with an empty result and no fault escapes it.
C4_EmptyMappingEndsEmpty ==
    \A i \in Invocations :
        pc[i] \in Terminal /\ clusters[i] = <<>> =>
            pc[i] = "done" /\ result[i] = <<>>

(***************************************************************************)
(* Claims about _extract_from_cluster.                                     *)
(***************************************************************************)
\* C5: when no member of the chosen cluster has an anchor,
\* _extract_from_cluster yields an empty result and does not fail.
C5_NoAnchorsYieldsEmpty ==
    pc[1] \in Terminal /\ Flatten(best_cluster[1]) = <<>> =>
        pc[1] = "done" /\ result[1] = <<>>

HasUrl(a) == "href" \in DOMAIN a.attrib /\ a.attrib["href"] # <<>>

\* the anchors of the chosen cluster on the best path that carry an href,
\* in member order and then anchor order
C6_Emitted ==
    SelectSeq(Flatten(best_cluster[1]),
              LAMBDA a : a.path = best_path[1] /\ HasUrl(a))

\* C6: the result holds exactly one record per anchor on the best path with
\* a non-empty href, in member and then anchor order, with the anchor's text
\* as title; anchors without href and anchors on other paths give no record.
C6_OneRecordPerLinkedAnchor ==
    pc[1] = "done" =>
        /\ Len(result[1]) = Len(C6_Emitted)
        /\ \A k \in 1..Len(result[1]) :
            /\ result[1][k].title = C6_Emitted[k].text
            /\ result[1][k].url \in
                {C6_Emitted[k].attrib["href"],
                 <<"h", "t", "t", "p", ":">> \o C6_Emitted[k].attrib["href"]}

\* an anchor without href sits on the best path between two that are
\* emitted, and an anchor with href on another path is left out
C6_Witness ==
    /\ pc[1] = "done"
    /\ Len(result[1]) = 2
    /\ LET anchors == Flatten(best_cluster[1])
       IN  /\ \E k1, k2, k3 \in 1..Len(anchors) :
                /\ k1 < k2 /\ k2 < k3
                /\ \A k \in {k1, k2, k3} : anchors[k].path = best_path[1]
                /\ HasUrl(anchors[k1]) /\ ~HasUrl(anchors[k2]) /\ HasUrl(anchors[k3])
                /\ result[1][1].title # result[1][2].title
           /\ \E j \in 1..Len(anchors) :
                anchors[j].path # best_path[1] /\ HasUrl(anchors[j])

\* C7: every emitted url is non-empty and does not start with '//': an href
\* that starts with '//' is emitted as 'http:' + href, any other unchanged.
C7_UrlsAreNormalized ==
    pc[1] = "done" /\ Len(result[1]) = Len(C6_Emitted) =>
        \A k \in 1..Len(result[1]) :
            LET href == C6_Emitted[k].attrib["href"]
                url == result[1][k].url
                slashes == Len(href) >= 2 /\ href[1] = "/" /\ href[2] = "/"
            IN  /\ url # <<>>
                /\ ~(Len(url) >= 2 /\ url[1] = "/" /\ url[2] = "/")
                /\ slashes => url = <<"h", "t", "t", "p", ":">> \o href
                /\ ~slashes => url = href

\* one url was rewritten and one was emitted unchanged
C7_Witness ==
    /\ pc[1] = "done"
    /\ \E k \in 1..Len(result[1]) :
            result[1][k].url = <<"h", "t", "t", "p", ":", "/", "/", "a">>
    /\ \E k \in 1..Len(result[1]) : result[1][k].url = <<"/", "a">>

C8_Paths == {a.path : a \in Range(Flatten(best_cluster[1]))}

C8_First(path) ==
    Min({k \in 1..Len(Flatten(best_cluster[1])) : Flatten(best_cluster[1])[k].path = path})

C8_Probabilities(path) ==
    LET on_path == SelectSeq(Flatten(best_cluster[1]), LAMBDA a : a.path = path)
    IN  [k \in 1..Len(on_path) |-> _probability_of_title_with_length(Len(on_path[k].text))]

\* mean(p) <= mean(q) of the title probabilities of the anchors on the paths
C8_MeanLeq(p, q) ==
    SumSeq(C8_Probabilities(p)) * Len(C8_Probabilities(q))
        <= SumSeq(C8_Probabilities(q)) * Len(C8_Probabilities(p))

\* C8: the best path has the greatest mean title probability over the
\* anchors of the cluster on that path; of several such paths, it is the one
\* met first when walking the members and their anchors in order.
C8_BestPathIsFirstGreatestMean ==
    pc[1] \in {"emit", "done"} =>
        /\ best_path[1] \in C8_Paths
        /\ \A q \in C8_Paths : C8_MeanLeq(q, best_path[1])
        /\ \A q \in C8_Paths :
                C8_First(q) < C8_First(best_path[1]) => ~C8_MeanLeq(best_path[1], q)

\* two paths share the greatest mean, and the one met first, which sorts
\* last, is the best path
C8_Witness ==
    /\ pc[1] = "emit"
    /\ best_path[1] = <<"p", "a">>
    /\ <<"a">> \in C8_Paths
    /\ C8_First(<<"p", "a">>) = 1
    /\ C8_MeanLeq(<<"a">>, <<"p", "a">>)
    /\ C8_MeanLeq(<<"p", "a">>, <<"a">>)
    /\ Len(C8_Probabilities(<<"a">>)) # Len(C8_Probabilities(<<"p", "a">>))

=============================================================================
